---- MODULE Spec2Model ----
(***************************************************************************)
(* A model of mdwiki-dev-server (src/main.go, the second, current version  *)
(* of the program: lines 167-406).                                         *)
(*                                                                         *)
(* Part 1, specification Spec / FairSpec: the live-reload subsystem.  One  *)
(* process (main), and per notification connection one webHandler          *)
(* goroutine with its two helper goroutines, newTicker's and newWatcher's. *)
(* The four channels are unbuffered, so every communication is a           *)
(* rendezvous of a sender and a receiver standing at their channel         *)
(* operations.  log.Fatal (maybeBail) ends the whole process.              *)
(*                                                                         *)
(* Part 2, specification FilterSpec: filteringFileServer.ServeHTTP, one    *)
(* request at a time, statement by statement.                              *)
(***************************************************************************)
EXTENDS Integers, Sequences, FiniteSets, TLC

(***************************************************************************)
(* Bounds of the model.                                                    *)
(***************************************************************************)
\* Number of file changes the environment makes in the content directory.
MaxChanges == 2

\* The notification connections: two, since the properties checked speak of
\* one session or of a pair of sessions.
Sessions == { "c1", "c2" }

(***************************************************************************)
(* Byte strings are tuples of one-character strings.                       *)
(***************************************************************************)
HasSuffix(s, suf) ==
    /\ Len(suf) <= Len(s)
    /\ SubSeq(s, Len(s) - Len(suf) + 1, Len(s)) = suf

HasPrefix(s, pre) ==
    /\ Len(pre) <= Len(s)
    /\ SubSeq(s, 1, Len(pre)) = pre

(***************************************************************************)
(* fsnotify.Op is a bit mask (gopkg.in/fsnotify.v1): Create = 1,           *)
(* Write = 2, Remove = 4, Rename = 8, Chmod = 16.  One event may carry     *)
(* several bits.  An Op is modelled as the set of its bits, so that        *)
(* op & Chmod == Chmod is membership of the Chmod bit.                     *)
(***************************************************************************)
OpWrite == "Write"
OpChmod == "Chmod"
Ops == { {OpWrite}, {OpChmod}, {OpWrite, OpChmod} }

\* File names in the content directory.
NameMd  == <<"a", ".", "m", "d">>
NameTxt == <<"a", ".", "t", "x", "t">>
Names == { NameMd, NameTxt }

\* A raw fsnotify.Event{Name, Op}: every operation on the file that
\* matches the default pattern, a write of the one that does not.
RawEvents ==
    { ev \in [name : Names, op : Ops] :
        ev.name = NameMd \/ ev.op = {OpWrite} }
NoEvent == [name |-> <<>>, op |-> {}]

(***************************************************************************)
(* The flags.  -r is a regular expression: the default                     *)
(* .*(md|html|css)$ , or one that does not compile.  -d is the content     *)
(* directory, which fsnotify can watch or cannot (missing, unreadable).    *)
(***************************************************************************)
DefaultRegexp ==
    [valid |-> TRUE,
     alts  |-> { <<"m", "d">>, <<"h", "t", "m", "l">>, <<"c", "s", "s">> }]
MalformedRegexp == [valid |-> FALSE, alts |-> {}]
Regexps == { DefaultRegexp, MalformedRegexp }
Dirs == { "watchable", "unwatchable" }

\* regexp.MatchString(pattern, name): the pattern is compiled at every
\* call; err is the compile error.
MatchString(pattern, name) ==
    [err     |-> ~pattern.valid,
     matched |-> pattern.valid /\ \E a \in pattern.alts : HasSuffix(name, a)]

VARIABLES
    proc,              \* main: "starting", "listening", "exited"
    flagNotifyRegexp,  \* *flagNotifyRegexp
    flagContentDir,    \* *flagContentDir
    spc,               \* webHandler's position, per connection
    somethingChanged,  \* webHandler's local, per connection
    sent,              \* messages sent on ws by websocket.Message.Send
    sendErr,           \* err of websocket.Message.Send was non-nil
    notesRecv,         \* notes received from notifier (each one is logged)
    branch,            \* the case of webHandler's select taken last
    connOpen,          \* the websocket connection is open
    tpc,               \* newTicker's goroutine position
    wpc,               \* newWatcher's goroutine position
    watching,          \* the fsnotify watcher holds its watch handle
    events,            \* raw events queued for watcher.Events
    event,             \* newWatcher's local event
    nChanges,          \* file changes made so far
    dropped,           \* newTicker's select took its default case last
    errLogged          \* "error in filesystem watcher:" is in the log

svars == << proc, flagNotifyRegexp, flagContentDir, spc, somethingChanged,
            sent, sendErr, notesRecv, branch, connOpen, tpc, wpc, watching,
            events, event, nChanges, dropped, errLogged >>

\* The variables of filteringFileServer.ServeHTTP (part 2).
VARIABLES
    fpc,       \* ServeHTTP's position
    r,         \* the request
    recorder,  \* the httptest.ResponseRecorder: Code, Header, Body
    w          \* the real http.ResponseWriter

fvars == << fpc, r, recorder, w >>

vars == << svars, fvars >>

SInit ==
    /\ proc = "starting"
    /\ flagNotifyRegexp \in Regexps
    /\ flagContentDir \in Dirs
    /\ spc = [s \in Sessions |-> "idle"]
    /\ somethingChanged = [s \in Sessions |-> FALSE]
    /\ sent = [s \in Sessions |-> 0]
    /\ sendErr = [s \in Sessions |-> FALSE]
    /\ notesRecv = [s \in Sessions |-> 0]
    /\ branch = [s \in Sessions |-> "none"]
    /\ connOpen = [s \in Sessions |-> FALSE]
    /\ tpc = [s \in Sessions |-> "none"]
    /\ wpc = [s \in Sessions |-> "none"]
    /\ watching = [s \in Sessions |-> FALSE]
    /\ events = [s \in Sessions |-> <<>>]
    /\ event = [s \in Sessions |-> NoEvent]
    /\ nChanges = 0
    /\ dropped = [s \in Sessions |-> FALSE]
    /\ errLogged = FALSE

Running == proc = "listening"

\* maybeBail(err): log.Fatal(err) ends the process, every goroutine with it.
maybeBail(err) == proc' = IF err THEN "exited" ELSE proc

(***************************************************************************)
(* main: flag.Parse, the two http.Handle calls, ListenAndServe.  Neither   *)
(* flag is looked at before the server listens.  ListenAndServe returns    *)
(* only with an error (the port is taken), which log.Fatal reports.        *)
(***************************************************************************)
main ==
    /\ proc = "starting"
    /\ \E listenErr \in BOOLEAN : proc' = IF listenErr THEN "exited" ELSE "listening"
    /\ UNCHANGED fvars
    /\ UNCHANGED << flagNotifyRegexp, flagContentDir, spc, somethingChanged,
                    sent, sendErr, notesRecv, connOpen, tpc, wpc, watching,
                    events, event, nChanges, branch,
                    dropped, errLogged >>

(***************************************************************************)
(* webHandler, entry: a browser opens /_reloader.  newTicker and           *)
(* newWatcher make their channels and start their goroutines; the          *)
(* handler sets somethingChanged and stands at its select.                 *)
(***************************************************************************)
webHandlerEnter(s) ==
    /\ Running
    /\ spc[s] = "idle"
    /\ spc' = [spc EXCEPT ![s] = "select"]
    /\ somethingChanged' = [somethingChanged EXCEPT ![s] = FALSE]
    /\ connOpen' = [connOpen EXCEPT ![s] = TRUE]
    /\ tpc' = [tpc EXCEPT ![s] = "sleep"]
    /\ wpc' = [wpc EXCEPT ![s] = "add"]
    /\ UNCHANGED fvars
    /\ UNCHANGED << proc, flagNotifyRegexp, flagContentDir, sent, sendErr,
                    notesRecv, watching, events, event, nChanges, branch,
                    dropped, errLogged >>

\* The browser (or the network) closes the connection.  webHandler never
\* reads from ws, so it learns of it only when a Send fails.
connClose(s) ==
    /\ Running
    /\ connOpen[s]
    /\ connOpen' = [connOpen EXCEPT ![s] = FALSE]
    /\ UNCHANGED fvars
    /\ UNCHANGED << proc, flagNotifyRegexp, flagContentDir, spc,
                    somethingChanged, sent, sendErr, notesRecv, tpc, wpc,
                    watching, events, event, nChanges, branch,
                    dropped, errLogged >>

(***************************************************************************)
(* newTicker's goroutine.                                                  *)
(***************************************************************************)
\* time.Sleep(d) returns.
tickerWake(s) ==
    /\ Running
    /\ tpc[s] = "sleep"
    /\ tpc' = [tpc EXCEPT ![s] = "select"]
    /\ UNCHANGED fvars
    /\ UNCHANGED << proc, flagNotifyRegexp, flagContentDir, spc,
                    somethingChanged, sent, sendErr, notesRecv, connOpen,
                    wpc, watching, events, event, nChanges, branch,
                    dropped, errLogged >>

\* A handler that forgets the test of somethingChanged.
onTick_Unconditional(s) == "send"

\* A handler that reads the test of somethingChanged the wrong way round.
onTick_Inverted(s) ==
    IF somethingChanged[s] = TRUE THEN "select" ELSE "send"

\* What webHandler does with a tick: case _ = <-ticker.
onTick(s) ==
    IF somethingChanged[s] = TRUE THEN "send" ELSE "select"

\* case ticker <- true, met by webHandler's case _ = <-ticker.
tickerSend(s) ==
    /\ Running
    /\ tpc[s] = "select"
    /\ spc[s] = "select"
    /\ tpc' = [tpc EXCEPT ![s] = "sleep"]
    /\ spc' = [spc EXCEPT ![s] = onTick(s)]
    /\ branch' = [branch EXCEPT ![s] = "ticker"]
    /\ dropped' = [dropped EXCEPT ![s] = FALSE]
    /\ UNCHANGED fvars
    /\ UNCHANGED << proc, flagNotifyRegexp, flagContentDir, somethingChanged,
                    sent, sendErr, notesRecv, connOpen, wpc, watching,
                    events, event, nChanges,
                    errLogged >>

\* A ticker whose select has no default case: it waits for a receiver.
tickerDefault_Blocking(s) ==
    /\ FALSE
    /\ UNCHANGED vars

\* default: nobody receives on ticker, nobody sends on tickerShutdown.
tickerDefault(s) ==
    /\ Running
    /\ tpc[s] = "select"
    /\ spc[s] \notin {"select", "tickerShutdown"}
    /\ tpc' = [tpc EXCEPT ![s] = "sleep"]
    /\ dropped' = [dropped EXCEPT ![s] = TRUE]
    /\ UNCHANGED fvars
    /\ UNCHANGED << proc, flagNotifyRegexp, flagContentDir, spc,
                    somethingChanged, sent, sendErr, notesRecv, connOpen,
                    wpc, watching, events, event, nChanges, branch,
                    errLogged >>

\* case <-tickerShutdown, met by webHandler's tickerShutdown <- true.
tickerStop(s) ==
    /\ Running
    /\ tpc[s] = "select"
    /\ spc[s] = "tickerShutdown"
    /\ tpc' = [tpc EXCEPT ![s] = "exited"]
    /\ spc' = [spc EXCEPT ![s] = "notifierShutdown"]
    /\ dropped' = [dropped EXCEPT ![s] = FALSE]
    /\ UNCHANGED fvars
    /\ UNCHANGED << proc, flagNotifyRegexp, flagContentDir, somethingChanged,
                    sent, sendErr, notesRecv, connOpen, wpc, watching,
                    events, event, nChanges, branch,
                    errLogged >>

(***************************************************************************)
(* newWatcher's goroutine.                                                 *)
(***************************************************************************)
\* fsnotify.NewWatcher, defer watcher.Close, watcher.Add(dir), maybeBail.
watcherAdd(s) ==
    /\ Running
    /\ wpc[s] = "add"
    /\ LET err == flagContentDir = "unwatchable"
       IN  /\ maybeBail(err)
           /\ wpc' = [wpc EXCEPT ![s] = IF err THEN "add" ELSE "select"]
           /\ watching' = [watching EXCEPT ![s] = ~err]
    /\ UNCHANGED fvars
    /\ UNCHANGED << flagNotifyRegexp, flagContentDir, spc, somethingChanged,
                    sent, sendErr, notesRecv, connOpen, tpc, events, event,
                    nChanges, branch,
                    dropped, errLogged >>

\* if !matched || event.Op&fsnotify.Chmod == fsnotify.Chmod { continue }
discards(matched, op) == ~matched \/ OpChmod \in op

\* case event := <-watcher.Events: match the name, drop or go on to notify.
watcherEvent(s) ==
    /\ Running
    /\ wpc[s] = "select"
    /\ events[s] # <<>>
    /\ LET ev == Head(events[s])
           m  == MatchString(flagNotifyRegexp, ev.name)
       IN  /\ events' = [events EXCEPT ![s] = Tail(@)]
           /\ maybeBail(m.err)
           /\ IF m.err \/ discards(m.matched, ev.op)
                THEN /\ wpc' = wpc
                     /\ event' = [event EXCEPT ![s] = NoEvent]
                ELSE /\ wpc' = [wpc EXCEPT ![s] = "notify"]
                     /\ event' = [event EXCEPT ![s] = ev]
    /\ UNCHANGED fvars
    /\ UNCHANGED << flagNotifyRegexp, flagContentDir, spc, somethingChanged,
                    sent, sendErr, notesRecv, connOpen, tpc, watching,
                    nChanges, branch,
                    dropped, errLogged >>

\* notifier <- event.String(), met by webHandler's case note := <-notifier.
watcherNotify(s) ==
    /\ Running
    /\ wpc[s] = "notify"
    /\ spc[s] = "select"
    /\ wpc' = [wpc EXCEPT ![s] = "select"]
    /\ event' = [event EXCEPT ![s] = NoEvent]
    /\ spc' = [spc EXCEPT ![s] = "note"]
    /\ notesRecv' = [notesRecv EXCEPT ![s] = @ + 1]
    /\ branch' = [branch EXCEPT ![s] = "notifier"]
    /\ UNCHANGED fvars
    /\ UNCHANGED << proc, flagNotifyRegexp, flagContentDir, somethingChanged,
                    sent, sendErr, connOpen, tpc, watching, events, nChanges,
                    dropped, errLogged >>

\* A watcher that leaves its loop on an error of the fsnotify watcher.
watcherError_Break(s) ==
    /\ Running
    /\ wpc[s] = "select"
    /\ watching[s]
    /\ errLogged' = TRUE
    /\ wpc' = [wpc EXCEPT ![s] = "exited"]
    /\ watching' = [watching EXCEPT ![s] = FALSE]
    /\ events' = [events EXCEPT ![s] = <<>>]
    /\ UNCHANGED fvars
    /\ UNCHANGED << proc, flagNotifyRegexp, flagContentDir, spc,
                    somethingChanged, sent, sendErr, notesRecv, branch,
                    connOpen, tpc, event, nChanges, dropped >>

\* case err := <-watcher.Errors: log.Println("error in filesystem
\* watcher:", err), and round the loop again.  The fsnotify watcher hands
\* over an error while it is open and this goroutine is at its select.
watcherError(s) ==
    /\ Running
    /\ wpc[s] = "select"
    /\ watching[s]
    /\ errLogged' = TRUE
    /\ UNCHANGED fvars
    /\ UNCHANGED << proc, flagNotifyRegexp, flagContentDir, spc,
                    somethingChanged, sent, sendErr, notesRecv, branch,
                    connOpen, tpc, wpc, watching, events, event, nChanges,
                    dropped >>

\* A watcher that returns without closing its fsnotify watcher.
watcherStop_NoClose(s) ==
    /\ Running
    /\ wpc[s] = "select"
    /\ spc[s] = "notifierShutdown"
    /\ wpc' = [wpc EXCEPT ![s] = "exited"]
    /\ spc' = [spc EXCEPT ![s] = "done"]
    /\ UNCHANGED fvars
    /\ UNCHANGED << proc, flagNotifyRegexp, flagContentDir, somethingChanged,
                    sent, sendErr, notesRecv, connOpen, tpc, watching,
                    events, event, nChanges, branch,
                    dropped, errLogged >>

\* case <-notifierShutdown: break Loop, the deferred watcher.Close, return.
watcherStop(s) ==
    /\ Running
    /\ wpc[s] = "select"
    /\ spc[s] = "notifierShutdown"
    /\ wpc' = [wpc EXCEPT ![s] = "exited"]
    /\ watching' = [watching EXCEPT ![s] = FALSE]
    /\ events' = [events EXCEPT ![s] = <<>>]
    /\ spc' = [spc EXCEPT ![s] = "done"]
    /\ UNCHANGED fvars
    /\ UNCHANGED << proc, flagNotifyRegexp, flagContentDir, somethingChanged,
                    sent, sendErr, notesRecv, connOpen, tpc, event, nChanges, branch,
                    dropped, errLogged >>

(***************************************************************************)
(* The environment changes a file of the content directory: every          *)
(* fsnotify watcher that holds a watch on it gets the raw event.           *)
(***************************************************************************)
fsChange(ev) ==
    /\ Running
    /\ nChanges < MaxChanges
    /\ nChanges' = nChanges + 1
    /\ events' = [s \in Sessions |->
                    IF watching[s] THEN Append(events[s], ev) ELSE events[s]]
    /\ UNCHANGED fvars
    /\ UNCHANGED << proc, flagNotifyRegexp, flagContentDir, spc,
                    somethingChanged, sent, sendErr, notesRecv, connOpen,
                    tpc, wpc, watching, event, branch,
                    dropped, errLogged >>

(***************************************************************************)
(* webHandler's loop.                                                      *)
(***************************************************************************)
\* A handler that sends as soon as it has the note, as the program's first
\* version did.
webHandlerNote_Immediate(s) ==
    /\ Running
    /\ spc[s] = "note"
    /\ somethingChanged' = [somethingChanged EXCEPT ![s] = TRUE]
    /\ spc' = [spc EXCEPT ![s] = "send"]
    /\ UNCHANGED fvars
    /\ UNCHANGED << proc, flagNotifyRegexp, flagContentDir, sent, sendErr,
                    notesRecv, connOpen, tpc, wpc, watching, events, event,
                    nChanges, branch,
                    dropped, errLogged >>

\* case note := <-notifier: the log line, somethingChanged = true.
webHandlerNote(s) ==
    /\ Running
    /\ spc[s] = "note"
    /\ somethingChanged' = [somethingChanged EXCEPT ![s] = TRUE]
    /\ spc' = [spc EXCEPT ![s] = "select"]
    /\ UNCHANGED fvars
    /\ UNCHANGED << proc, flagNotifyRegexp, flagContentDir, sent, sendErr,
                    notesRecv, connOpen, tpc, wpc, watching, events, event,
                    nChanges, branch,
                    dropped, errLogged >>

\* A handler that stays in its loop after the Send.
afterSend_NoBreak == "select"

\* Where webHandler goes after a Send that returned no error:
\* somethingChanged = false, then tickerShutdown <- true (and, from
\* there, notifierShutdown <- true and break Loop).
afterSend == "tickerShutdown"

\* m := newReloadMessage(); err := websocket.Message.Send(ws, m);
\* maybeBail(err); somethingChanged = false.
webHandlerSend(s) ==
    /\ Running
    /\ spc[s] = "send"
    /\ LET err == ~connOpen[s]
       IN  /\ sendErr' = [sendErr EXCEPT ![s] = err]
           /\ maybeBail(err)
           /\ sent' = [sent EXCEPT ![s] = IF err THEN @ ELSE @ + 1]
           /\ somethingChanged' =
                 [somethingChanged EXCEPT ![s] = IF err THEN @ ELSE FALSE]
           /\ spc' = [spc EXCEPT ![s] = IF err THEN @ ELSE afterSend]
    /\ UNCHANGED fvars
    /\ UNCHANGED << flagNotifyRegexp, flagContentDir, notesRecv, connOpen,
                    tpc, wpc, watching, events, event, nChanges, branch,
                    dropped, errLogged >>

\* The steps of one connection's three goroutines.
sessionStep(s) ==
    \/ webHandlerEnter(s)
    \/ webHandlerNote(s)
    \/ webHandlerSend(s)
    \/ tickerWake(s)
    \/ tickerSend(s)
    \/ tickerDefault(s)
    \/ tickerStop(s)
    \/ watcherAdd(s)
    \/ watcherEvent(s)
    \/ watcherNotify(s)
    \/ watcherError(s)
    \/ watcherStop(s)

(***************************************************************************)
(* Part 2: filteringFileServer.ServeHTTP.                                  *)
(*                                                                         *)
(* A header map is a function on HeaderKeys; a value is a tuple, the       *)
(* empty tuple standing for a key the map does not hold (Header.Get        *)
(* returns "" for it).                                                     *)
(***************************************************************************)
HeaderKeys == { "Content-Type", "Content-Length", "Last-Modified", "Etag",
                "X-Via-FilteringFileServer" }
NoValue == <<>>
NoHeader == [k \in HeaderKeys |-> NoValue]

\* The marker looked for in the body.
Marker == <<"<", "/", "h", "e", "a", "d", ">">>

\* var snippet string: the 525 bytes of the literal.
snippet == <<
    "\n", "<", "!", "-", "-", " ", "F", "r", "o", "m", ":", " ", "h", "t",
    "t", "p", "s", ":", "/", "/", "w", "w", "w", ".", "n", "p", "m", "j",
    "s", ".", "o", "r", "g", "/", "p", "a", "c", "k", "a", "g", "e", "/",
    "n", "o", "d", "e", "-", "l", "i", "v", "e", "-", "r", "e", "l", "o",
    "a", "d", " ", "-", "-", ">", "\n", "<", "!", "-", "-", " ", "I", "n",
    "s", "e", "r", "t", "e", "d", " ", "b", "y", " ", "m", "d", "w", "i",
    "k", "i", "-", "d", "e", "v", "-", "s", "e", "r", "v", "e", "r", " ",
    " ", " ", " ", " ", " ", " ", " ", " ", " ", " ", " ", " ", " ", " ",
    " ", " ", " ", " ", " ", " ", " ", " ", " ", "-", "-", ">", "\n", "<",
    "s", "c", "r", "i", "p", "t", ">", "\n", "v", "a", "r", " ", "w", "s",
    ";", "\n", "f", "u", "n", "c", "t", "i", "o", "n", " ", "s", "o", "c",
    "k", "e", "t", "(", ")", " ", "{", "\n", " ", " ", "w", "s", " ", "=",
    " ", "n", "e", "w", " ", "W", "e", "b", "S", "o", "c", "k", "e", "t",
    "(", "\"", "w", "s", ":", "/", "/", "1", "2", "7", ".", "0", ".", "0",
    ".", "1", ":", "8", "0", "8", "0", "/", "_", "r", "e", "l", "o", "a",
    "d", "e", "r", "\"", ")", ";", "\n", " ", " ", "w", "s", ".", "o", "n",
    "m", "e", "s", "s", "a", "g", "e", " ", "=", " ", "f", "u", "n", "c",
    "t", "i", "o", "n", " ", "(", " ", "e", " ", ")", " ", "{", "\n", " ",
    " ", " ", " ", "v", "a", "r", " ", "d", "a", "t", "a", " ", "=", " ",
    "J", "S", "O", "N", ".", "p", "a", "r", "s", "e", "(", "e", ".", "d",
    "a", "t", "a", ")", ";", "\n", " ", " ", " ", " ", "i", "f", " ", "(",
    " ", "d", "a", "t", "a", ".", "r", " ", ")", " ", "{", "\n", " ", " ",
    " ", " ", " ", " ", "w", "s", ".", "c", "l", "o", "s", "e", "(", ")",
    ";", "\n", " ", " ", " ", " ", " ", " ", "l", "o", "c", "a", "t", "i",
    "o", "n", ".", "r", "e", "l", "o", "a", "d", "(", ")", ";", "\n", " ",
    " ", " ", " ", "}", "\n", " ", " ", "}", ";", "\n", "}", "\n", "s",
    "e", "t", "I", "n", "t", "e", "r", "v", "a", "l", "(", "f", "u", "n",
    "c", "t", "i", "o", "n", " ", "(", ")", " ", "{", "\n", " ", " ", "i",
    "f", " ", "(", " ", "w", "s", " ", ")", " ", "{", "\n", " ", " ", " ",
    " ", "i", "f", " ", "(", " ", "w", "s", ".", "r", "e", "a", "d", "y",
    "S", "t", "a", "t", "e", " ", "!", "=", "=", " ", "1", " ", ")", " ",
    "{", "\n", " ", " ", " ", " ", " ", " ", "w", "s", ".", "c", "l", "o",
    "s", "e", "(", ")", ";", "\n", " ", " ", " ", " ", " ", " ", "s", "o",
    "c", "k", "e", "t", "(", ")", ";", "\n", " ", " ", " ", " ", "}", "\n",
    " ", " ", "}", " ", "e", "l", "s", "e", " ", "{", "\n", " ", " ", " ",
    " ", "s", "o", "c", "k", "e", "t", "(", ")", ";", "\n", " ", " ", "}",
    "\n", "}", ",", " ", "1", "0", "0", "0", ")", ";", "\n", "<", "/", "s",
    "c", "r", "i", "p", "t", ">", "\n", "\n" >>
\* strconv.Itoa, for n >= 0: the decimal digits.
Digits == <<"0", "1", "2", "3", "4", "5", "6", "7", "8", "9">>
RECURSIVE Itoa(_)
Itoa(n) ==
    IF n < 10 THEN << Digits[n + 1] >>
    ELSE Itoa(n \div 10) \o << Digits[(n % 10) + 1] >>

\* bytes.Index(s, sep): the offset of the first sep in s, or -1.
RECURSIVE IndexFrom(_, _, _)
IndexFrom(s, sep, k) ==
    IF k + Len(sep) > Len(s) THEN -1
    ELSE IF SubSeq(s, k + 1, k + Len(sep)) = sep THEN k
    ELSE IndexFrom(s, sep, k + 1)
bytesIndex(s, sep) == IndexFrom(s, sep, 0)

\* The slices b[:i] and b[i:].
SliceTo(b, i) == SubSeq(b, 1, i)
SliceFrom(b, i) == SubSeq(b, i + 1, Len(b))

(***************************************************************************)
(* What http.FileServer records for a request: the files' contents are     *)
(* built of a few pieces, so that the marker occurs never, once, twice,    *)
(* in the wrong case, or cut in two.                                       *)
(***************************************************************************)
\* Pieces a file's content is made of, and the number of pieces.
MaxChunks == 2
Chunks == { Marker,
            <<"<", "h", "e", "a", "d", ">">>,
            <<"<", "/", "H", "E", "A", "D", ">">>,
            <<"<", "/", "h", "e">>,
            <<"a", "d", ">">>,
            <<"x">> }
RECURSIVE Concat(_)
Concat(cs) == IF cs = <<>> THEN <<>> ELSE Head(cs) \o Concat(Tail(cs))
Contents ==
    { Concat(cs) : cs \in UNION { [1..n -> Chunks] : n \in 0..MaxChunks } }

TextHtml == <<"text", "/", "html">>
ContentTypes == { TextHtml,
                  <<"text", "/", "html", ";", " ", "charset=utf-8">>,
                  <<"text", "/", "plain", ";", " ", "charset=utf-8">>,
                  NoValue }
\* The validators http.FileServer sets: none (a listing, an error), the
\* file's modification time, or that and an entity tag.
Validators ==
    { [lm |-> NoValue, etag |-> NoValue],
      [lm |-> <<"Mon, 02 Jan 2006 15:04:05 GMT">>, etag |-> NoValue],
      [lm |-> <<"Mon, 02 Jan 2006 15:04:05 GMT">>, etag |-> <<"\"v1\"">>] }
Methods == { "GET", "HEAD" }
Codes == { 200, 404 }

\* h.ServeHTTP(recorder, r) for a resource of the given content: a file is
\* served with its size as Content-Length, and to a HEAD request without
\* its body; a listing or an error carries no Content-Length.
FileServer(method, code, ctype, val, hasLength, content) ==
    [Code   |-> code,
     Header |-> [k \in HeaderKeys |->
                   CASE k = "Content-Type"   -> ctype
                     [] k = "Content-Length" ->
                          IF hasLength THEN Itoa(Len(content)) ELSE NoValue
                     [] k = "Last-Modified"  -> val.lm
                     [] k = "Etag"           -> val.etag
                     [] OTHER                -> NoValue],
     Body   |-> IF method = "HEAD" THEN <<>> ELSE content]

NoRecorder == [Code |-> 200, Header |-> NoHeader, Body |-> <<>>]
\* A fresh http.ResponseWriter: nothing set, nothing on the wire.  sent is
\* the header as it went out with the status line, at the first Write.
NewWriter ==
    [header |-> NoHeader, wroteHeader |-> FALSE, status |-> 0,
     sent |-> NoHeader, body |-> <<>>]

FInit ==
    /\ fpc = "idle"
    /\ r = "GET"
    /\ recorder = NoRecorder
    /\ w = NewWriter

\* recorder := httptest.NewRecorder(); h.ServeHTTP(recorder, r)
serveRecord ==
    /\ Running
    /\ fpc = "idle"
    /\ \E method \in Methods, code \in Codes, ctype \in ContentTypes,
          val \in Validators, hasLength \in BOOLEAN, content \in Contents :
          /\ r' = method
          /\ recorder' = FileServer(method, code, ctype, val, hasLength, content)
    /\ fpc' = "copy"
    /\ UNCHANGED << w, svars >>

\* Whether the loop over recorder.Header() copies key k.
copies(k) == recorder.Header[k] # NoValue

\* A filter that copies the headers and flushes them to the client at
\* once, before the branch's headers are set.
serveCopy_Flushing ==
    /\ Running
    /\ fpc = "copy"
    /\ LET copied == [k \in HeaderKeys |->
                        IF copies(k) THEN recorder.Header[k] ELSE w.header[k]]
       IN  w' = [w EXCEPT !.header = copied, !.wroteHeader = TRUE,
                          !.status = 200, !.sent = copied]
    /\ fpc' = "headers"
    /\ UNCHANGED << r, recorder, svars >>

\* for k, v := range recorder.Header() { w.Header()[k] = v }
serveCopy ==
    /\ Running
    /\ fpc = "copy"
    /\ w' = [w EXCEPT !.header =
                [k \in HeaderKeys |->
                    IF copies(k) THEN recorder.Header[k] ELSE w.header[k]]]
    /\ fpc' = "headers"
    /\ UNCHANGED << r, recorder, svars >>

\* isHTML: regexp.MatchString("^text/html.*", contentType)
isHTML(contentType) == HasPrefix(contentType, TextHtml)

\* A filter that splices before the last marker (bytes.LastIndex).
markerAt_Last ==
    LET ks == { k \in 0..(Len(recorder.Body) - Len(Marker)) :
                  SubSeq(recorder.Body, k + 1, k + Len(Marker)) = Marker }
    IN  IF ks = {} THEN -1 ELSE CHOOSE k \in ks : \A j \in ks : j <= k

\* i := bytes.Index(recorder.Body.Bytes(), []byte("</head>"))
markerAt == bytesIndex(recorder.Body, Marker)

\* A filter that looks for the marker whatever the content type.
filters_AnyType == markerAt >= 0

\* if isHTML && i >= 0
filters == isHTML(w.header["Content-Type"]) /\ markerAt >= 0

\* A filter that leaves the snippet out of the length, as the middleware
\* the source's comment warns of.
filteredLength_NoSnippet == Itoa(Len(recorder.Body))

\* The Content-Length the filtered branch sets.
filteredLength == Itoa(Len(recorder.Body) + Len(snippet))

\* The branch is chosen and its headers are set: X-Via-FilteringFileServer
\* and, when filtering, Content-Length.
serveHeaders ==
    /\ Running
    /\ fpc = "headers"
    /\ IF filters
         THEN /\ w' = [w EXCEPT
                         !.header["X-Via-FilteringFileServer"] = <<"Filtered">>,
                         !.header["Content-Length"] = filteredLength]
              /\ fpc' = "writePre"
         ELSE /\ w' = [w EXCEPT
                         !.header["X-Via-FilteringFileServer"] = <<"Skipped">>]
              /\ fpc' = "writeBody"
    /\ UNCHANGED << r, recorder, svars >>

\* w.Write(b): the first Write sends the status line (200, WriteHeader was
\* never called) and the header as it then is; then the bytes.
Write(b) ==
    [w EXCEPT !.wroteHeader = TRUE,
              !.status = IF w.wroteHeader THEN @ ELSE 200,
              !.sent = IF w.wroteHeader THEN @ ELSE w.header,
              !.body = @ \o b]

\* _, err = w.Write(b); maybeBail(err): a Write fails when the client has
\* gone, and then nothing more is written.
serveWrite(at, b, then) ==
    /\ Running
    /\ fpc = at
    /\ \E err \in BOOLEAN :
          /\ maybeBail(err)
          /\ w' = IF err THEN w ELSE Write(b)
          /\ fpc' = IF err THEN "fatal" ELSE then
    /\ UNCHANGED << r, recorder, flagNotifyRegexp, flagContentDir, spc,
                    somethingChanged, sent, sendErr, notesRecv, connOpen,
                    tpc, wpc, watching, events, event, nChanges, branch,
                    dropped, errLogged >>

serveWritePre == serveWrite("writePre", SliceTo(recorder.Body, markerAt), "writeSnippet")
serveWriteSnippet == serveWrite("writeSnippet", snippet, "writePost")
serveWritePost == serveWrite("writePost", SliceFrom(recorder.Body, markerAt), "done")
serveWriteBody == serveWrite("writeBody", recorder.Body, "done")

Init == SInit /\ FInit

Next ==
    \/ main
    \/ \E s \in Sessions : sessionStep(s)
    \/ \E s \in Sessions : connClose(s)
    \/ \E ev \in RawEvents : fsChange(ev)

Spec == Init /\ [][Next]_vars

\* The server listens, no notification connection is open: requests to /.
FilterInit ==
    /\ SInit
    /\ flagNotifyRegexp = DefaultRegexp
    /\ flagContentDir = "watchable"
    /\ FInit

FilterNext ==
    \/ main
    \/ serveRecord
    \/ serveCopy
    \/ serveHeaders
    \/ serveWritePre
    \/ serveWriteSnippet
    \/ serveWritePost
    \/ serveWriteBody

FilterSpec == FilterInit /\ [][FilterNext]_vars

(***************************************************************************)
(* The goroutines are scheduled fairly: each of a connection's three       *)
(* goroutines takes a step it can take, and Go's select chooses among      *)
(* its ready cases at random.  The environment (file changes, the          *)
(* browser) owes nothing.                                                  *)
(***************************************************************************)
webHandlerStep(s) == webHandlerNote(s) \/ webHandlerSend(s)
tickerStep(s) ==
    tickerWake(s) \/ tickerSend(s) \/ tickerDefault(s) \/ tickerStop(s)
watcherStep(s) ==
    \/ watcherAdd(s) \/ watcherEvent(s) \/ watcherNotify(s)
    \/ watcherError(s) \/ watcherStop(s)

Fairness ==
    \A s \in Sessions :
        /\ WF_vars(webHandlerStep(s))
        /\ WF_vars(tickerStep(s))
        /\ WF_vars(watcherStep(s))

FairSpec == Init /\ [][Next]_vars /\ Fairness

(***************************************************************************)
(* Properties of the reload sessions (Spec, FairSpec).                     *)
(***************************************************************************)
\* A session is Active from webHandler's entry until it returns or the
\* process ends.
Active(s) == Running /\ spc[s] \in {"select", "note", "send"}
Alive(s) == Running /\ spc[s] \notin {"idle", "done"}

\* C1: a session (one run of webHandler) sends at most one reload message
\* over its whole lifetime, whatever the change events and ticks.
C1_AtMostOneReload == \A s \in Sessions : sent[s] <= 1

\* A session that has sent its message and has ended, every file change of
\* the run having been made.
C1_Witness ==
    \E s \in Sessions :
        sent[s] = 1 /\ spc[s] = "done" /\ nChanges = MaxChanges

\* C2: in every state where a session has sent a reload message, it has
\* received a change notification from its own detector before.
C2_NoReloadBeforeChange ==
    \A s \in Sessions : sent[s] >= 1 => notesRecv[s] >= 1

\* A session that has sent its message after exactly one notification.
C2_Witness == \E s \in Sessions : sent[s] = 1 /\ notesRecv[s] = 1

\* C3: the message count of a session changes only in a step taken in
\* the branch of a received tick, with a notification received before and
\* none in that step; and however many notifications came before the
\* tick, the step sends one message.
C3_DebouncedToHeartbeat ==
    [][\A s \in Sessions :
          sent'[s] # sent[s] =>
              /\ branch[s] = "ticker"
              /\ notesRecv[s] >= 1
              /\ notesRecv'[s] = notesRecv[s]
              /\ sent[s] = 0 /\ sent'[s] = 1]_vars

\* Two notifications were received before one tick, and one message was sent.
C3_Witness == \E s \in Sessions : sent[s] = 1 /\ notesRecv[s] = 2

\* A raw event of the session's queue that matches the pattern and is not
\* a change of attributes only.
ContentChangePending(s) ==
    \E k \in 1..Len(events[s]) :
        /\ MatchString(flagNotifyRegexp, events[s][k].name).matched
        /\ events[s][k].op # {OpChmod}

\* C4: under fair scheduling, once a matching change that is not an
\* attribute-only change is queued for an Active session on an open
\* connection, the session eventually sends a reload message (short of
\* the connection closing or the process ending first).
C4_ChangeLeadsToReload ==
    \A s \in Sessions :
        (Active(s) /\ connOpen[s] /\ ContentChangePending(s))
            ~> (sent[s] >= 1 \/ ~connOpen[s] \/ ~Running)

\* C5: a failed Send is fatal to its session only: the process keeps
\* running.
C5_SendFailureContained ==
    \A s \in Sessions : sendErr[s] => Running

\* C6: with a malformed pattern or an unwatchable root the process never
\* accepts a connection.
C6_ConfigRejectedAtStartup ==
    (~flagNotifyRegexp.valid \/ flagContentDir = "unwatchable")
        => \A s \in Sessions : spc[s] = "idle"

\* The steps webHandler takes for connection s: receiving a change,
\* receiving a tick, sending, shutting its helpers down.
handlerStep(s) ==
    \/ watcherNotify(s)
    \/ webHandlerNote(s)
    \/ tickerSend(s)
    \/ webHandlerSend(s)
    \/ tickerStop(s)
    \/ watcherStop(s)

\* C7: no step of one session changes the flag, the message count or the
\* liveness of another session.
C7_SessionsIsolated ==
    [][\A s, t \in Sessions :
          (s # t /\ handlerStep(s)) =>
              /\ somethingChanged'[t] = somethingChanged[t]
              /\ sent'[t] = sent[t]
              /\ Alive(t)' = Alive(t)]_vars

(***************************************************************************)
(* Properties of the content filter (FilterSpec).                          *)
(***************************************************************************)
\* The number a Content-Length header reads as.
DigitValue(d) == CHOOSE v \in 0..9 : Digits[v + 1] = d
RECURSIVE Atoi(_)
Atoi(ds) ==
    IF ds = <<>> THEN 0
    ELSE 10 * Atoi(SubSeq(ds, 1, Len(ds) - 1)) + DigitValue(ds[Len(ds)])

\* b holds m somewhere.
Contains(b, m) ==
    \E k \in 0..(Len(b) - Len(m)) : SubSeq(b, k + 1, k + Len(m)) = m

\* What went out with the status line.
SentFiltered == w.sent["X-Via-FilteringFileServer"] = <<"Filtered">>
SentSkipped == w.sent["X-Via-FilteringFileServer"] = <<"Skipped">>
SentLength == w.sent["Content-Length"]

\* C8: the real response carries neither Last-Modified nor ETag, and
\* every other header of the buffered response.
C8_ValidatorsDropped ==
    w.wroteHeader =>
        /\ w.sent["Last-Modified"] = NoValue
        /\ w.sent["Etag"] = NoValue
        /\ w.sent["Content-Type"] = recorder.Header["Content-Type"]

\* C9, as claimed: a filtered response's Content-Length is the original
\* body length plus the snippet length and the number of bytes written; a
\* passed-through response's Content-Length is the original body length.
C9_ContentLengthIsBodyLength ==
    fpc = "done" =>
        IF SentFiltered
          THEN /\ Atoi(SentLength) = Len(recorder.Body) + Len(snippet)
               /\ Atoi(SentLength) = Len(w.body)
          ELSE SentLength # NoValue => Atoi(SentLength) = Len(recorder.Body)

\* C9, amended: a passed-through response's Content-Length is the one the
\* wrapped handler recorded (none when it recorded none); it is the
\* original body's length for every request but a HEAD request.
C9_ContentLengthAmended ==
    fpc = "done" =>
        IF SentFiltered
          THEN /\ Atoi(SentLength) = Len(recorder.Body) + Len(snippet)
               /\ Atoi(SentLength) = Len(w.body)
          ELSE /\ SentLength = recorder.Header["Content-Length"]
               /\ (r # "HEAD" /\ SentLength # NoValue)
                     => Atoi(SentLength) = Len(recorder.Body)

\* A HEAD request passed through: the file's size is announced and no
\* byte of a body was recorded or written.
C9_Witness ==
    /\ fpc = "done"
    /\ SentSkipped
    /\ r = "HEAD"
    /\ Atoi(SentLength) > 0
    /\ recorder.Body = <<>>
    /\ w.body = <<>>

\* C10: the snippet is injected exactly when the buffered content type
\* starts with text/html and the body holds the marker; otherwise the
\* body goes out as it is and the diagnostic header says Skipped.
C10_InjectsIffHtmlWithMarker ==
    fpc = "done" =>
        IF /\ HasPrefix(recorder.Header["Content-Type"], TextHtml)
           /\ Contains(recorder.Body, Marker)
          THEN /\ SentFiltered
               /\ Len(w.body) = Len(recorder.Body) + Len(snippet)
               /\ Contains(w.body, snippet)
          ELSE /\ SentSkipped
               /\ w.body = recorder.Body

\* A text/plain response whose body holds the marker went out untouched.
C10_Witness ==
    /\ fpc = "done"
    /\ HasPrefix(recorder.Header["Content-Type"], <<"text", "/", "plain">>)
    /\ Contains(recorder.Body, Marker)
    /\ SentSkipped
    /\ w.body = recorder.Body

\* The offsets at which b holds m, and the first of them.
Offsets(b, m) ==
    { k \in 0..(Len(b) - Len(m)) : SubSeq(b, k + 1, k + Len(m)) = m }
FirstOffset(b, m) ==
    CHOOSE k \in Offsets(b, m) : \A j \in Offsets(b, m) : k <= j
\* b without the n bytes at offset i.
Remove(b, i, n) == SubSeq(b, 1, i) \o SubSeq(b, i + n + 1, Len(b))

\* C11: for a filtered body, with i the offset of the first marker, the
\* emitted body is body[0,i), the snippet, body[i,end); removing the
\* snippet's bytes at offset i gives the original body back; and the
\* snippet occurs once in it, however many markers the body holds.
C11_SpliceRoundTrip ==
    (fpc = "done" /\ SentFiltered) =>
        LET b == recorder.Body
            i == FirstOffset(b, Marker)
        IN  /\ w.body = SubSeq(b, 1, i) \o snippet \o SubSeq(b, i + 1, Len(b))
            /\ SubSeq(w.body, i + 1, i + Len(snippet)) = snippet
            /\ Remove(w.body, i, Len(snippet)) = b
            /\ Cardinality(Offsets(w.body, snippet)) = 1

\* A filtered body that holds the marker twice.
C11_Witness ==
    /\ fpc = "done"
    /\ SentFiltered
    /\ Cardinality(Offsets(recorder.Body, Marker)) = 2

(***************************************************************************)
(* Termination and cancellation of a session's helpers.                    *)
(***************************************************************************)
\* C12: no interleaving leaves a session blocked handing the shutdown
\* signal to its detector (notifierShutdown <- true) while the detector is
\* itself blocked handing it a change note (notifier <- ...): after the
\* reload is sent the session always gets through to its end.
C12_NoShutdownDeadlock ==
    \A s \in Sessions :
        ~(Running /\ spc[s] = "notifierShutdown" /\ wpc[s] = "notify")

\* C12, as progress: under fair scheduling a session that has sent its
\* reload message ends, short of the process ending first.
C12_SentLeadsToDone ==
    \A s \in Sessions :
        (sent[s] >= 1) ~> (spc[s] = "done" \/ ~Running)

\* C13: in every state where a session has ended, after a sent reload or
\* after a failed send, both its heartbeat and its change detector have
\* received their shutdown signal (and so have exited).
C13_EndedMeansHelpersCancelled ==
    \A s \in Sessions :
        (spc[s] = "done" \/ sendErr[s])
            => (tpc[s] = "exited" /\ wpc[s] = "exited")

(***************************************************************************)
(* The change detector's filter.                                           *)
(***************************************************************************)
\* C14: the detector turns a raw event into a change note (exactly one)
\* when its path matches the pattern and its operation is not a pure
\* attribute change, and into none otherwise; an operation that combines
\* a content change with an attribute change is not a pure attribute
\* change.
C14_NotesExactlyContentChanges ==
    [][\A s \in Sessions :
          watcherEvent(s) =>
              LET ev == Head(events[s])
                  m  == MatchString(flagNotifyRegexp, ev.name)
              IN  (wpc'[s] = "notify" /\ event'[s] = ev)
                      <=> (m.matched /\ ev.op # {OpChmod})]_vars

\* C16: a helper that has received its shutdown signal has left its loop
\* for good and emits nothing more: the heartbeat delivers no further
\* tick, the detector no further note, and by the time the detector's
\* goroutine has returned its watch is closed (no raw event reaches it).
C16_CancelledHelpersStaySilent ==
    [][\A s \in Sessions :
          /\ tpc[s] = "exited" =>
                (tpc'[s] = "exited" /\ ~tickerSend(s) /\ ~tickerWake(s))
          /\ wpc[s] = "exited" =>
                (wpc'[s] = "exited" /\ notesRecv'[s] = notesRecv[s])
          /\ wpc'[s] = "exited" =>
                (~watching'[s] /\ events'[s] = <<>>)]_vars

\* Both helpers of a session have exited on their signals while a file
\* change is still queued for the other session.
C16_Witness ==
    \E s, t \in Sessions :
        /\ tpc[s] = "exited" /\ wpc[s] = "exited" /\ spc[s] = "done"
        /\ events[t] # <<>>

(***************************************************************************)
(* What a tick and a note change in the session.                           *)
(***************************************************************************)
\* C18: a tick received while somethingChanged is false changes nothing:
\* no message is sent, the flag stays false, the session goes back to its
\* select and neither helper is told to stop; a note received sets the
\* flag and nothing else: nothing is sent and the session goes back to its
\* select.
C18_TickAndNoteFrame ==
    [][\A s \in Sessions :
          /\ (tickerSend(s) /\ ~somethingChanged[s]) =>
                /\ sent' = sent /\ sendErr' = sendErr
                /\ ~somethingChanged'[s]
                /\ spc'[s] = "select" /\ Active(s)'
                /\ tpc'[s] = "sleep" /\ wpc'[s] = wpc[s]
          /\ watcherNotify(s) =>
                /\ sent' = sent /\ sendErr' = sendErr
                /\ somethingChanged' = somethingChanged
                /\ spc'[s] = "note" /\ Active(s)'
                /\ tpc'[s] = tpc[s] /\ wpc'[s] = "select"
          /\ webHandlerNote(s) =>
                /\ sent' = sent /\ sendErr' = sendErr
                /\ somethingChanged'[s]
                /\ spc'[s] = "select" /\ Active(s)'
                /\ tpc'[s] = tpc[s] /\ wpc'[s] = wpc[s]]_vars

\* A session that has just received a tick with nothing changed, and one
\* that has received a note and set its flag.
C18_Witness ==
    \E s, t \in Sessions :
        /\ branch[s] = "ticker" /\ spc[s] = "select"
        /\ ~somethingChanged[s] /\ sent[s] = 0
        /\ branch[t] = "notifier" /\ spc[t] = "select"
        /\ somethingChanged[t] /\ sent[t] = 0

(***************************************************************************)
(* Order of the filter's steps and the status it emits.                    *)
(***************************************************************************)
\* C19: nothing goes to the client (no status line, no header, no body
\* byte) before the wrapped handler has finished writing into the
\* recorder and the headers are computed; and the header that went out
\* with the first body byte is the whole header: every recorded header
\* (Content-Length apart when filtered), the diagnostic header of the
\* branch taken and, when filtered, the recomputed Content-Length; it is
\* not changed afterwards.
C19_HeadersBeforeBody ==
    /\ fpc \in {"idle", "copy", "headers"} =>
          (~w.wroteHeader /\ w.body = <<>> /\ w.sent = NoHeader)
    /\ w.wroteHeader =>
          /\ w.sent = w.header
          /\ w.sent["X-Via-FilteringFileServer"] =
                IF filters THEN <<"Filtered">> ELSE <<"Skipped">>
          /\ \A k \in HeaderKeys :
                (copies(k) /\ ~(filters /\ k = "Content-Length"))
                    => w.sent[k] = recorder.Header[k]
          /\ filters =>
                w.sent["Content-Length"] =
                    Itoa(Len(recorder.Body) + Len(snippet))

\* The first bytes of a filtered body are on the wire, the snippet is not
\* yet, and the recorded response had headers to copy.
C19_Witness ==
    /\ fpc = "writeSnippet"
    /\ w.wroteHeader
    /\ w.body # <<>>
    /\ SentFiltered
    /\ copies("Etag")

\* C20: the status emitted on the real response is the status the wrapped
\* handler recorded.
C20_StatusPreserved ==
    w.wroteHeader => w.status = recorder.Code

(***************************************************************************)
(* The heartbeat's non-blocking send and the detector's error case.        *)
(***************************************************************************)
\* C15: the heartbeat never blocks on delivery and never queues: at its
\* select it can always go on; a tick that finds the session not
\* receiving is dropped, which the session never sees; the session gets
\* a tick only in the very step in which the heartbeat hands it over,
\* so after a dropped tick nothing is waiting for a session that becomes
\* ready again, and the heartbeat goes on to its next sleep.
C15_TicksDroppedNotQueued ==
    [][\A s \in Sessions :
          /\ (Running /\ tpc[s] = "select") => ENABLED tickerStep(s)
          /\ tickerDefault(s) =>
                /\ tpc'[s] = "sleep"
                /\ spc' = spc /\ branch' = branch
                /\ somethingChanged' = somethingChanged /\ sent' = sent
          /\ (dropped[s] /\ tpc[s] = "sleep") => ~tickerSend(s)
          /\ (branch'[s] = "ticker" /\ branch[s] # "ticker")
                => (tpc[s] = "select" /\ tpc'[s] = "sleep" /\ ~dropped'[s])
          /\ (spc[s] = "select" /\ spc'[s] = "send")
                => (tpc[s] = "select" /\ tpc'[s] = "sleep" /\ ~dropped'[s])]_vars

\* A tick found the session busy with a note and was dropped; the session
\* is back at its select, the heartbeat asleep, and nothing has been
\* delivered.
C15_Witness ==
    \E s \in Sessions :
        /\ Running
        /\ dropped[s] /\ tpc[s] = "sleep"
        /\ spc[s] = "select" /\ branch[s] = "notifier"
        /\ somethingChanged[s] /\ sent[s] = 0

\* C17: an error of the watch mechanism is logged and absorbed: the
\* detector is back at its select, still watching, its queued events
\* untouched, the session and the process as they were;
\* the detector leaves its loop, and gives up its watch, only on its
\* session's shutdown signal.
C17_WatchErrorsAbsorbed ==
    [][\A s \in Sessions :
          /\ watcherError(s) =>
                /\ errLogged'
                /\ wpc'[s] = "select" /\ watching'[s]
                /\ events' = events /\ proc' = proc
                /\ spc' = spc /\ somethingChanged' = somethingChanged
          /\ (wpc[s] # "exited" /\ wpc'[s] = "exited")
                => (spc[s] = "notifierShutdown" /\ spc'[s] = "done")
          /\ (watching[s] /\ ~watching'[s])
                => spc[s] = "notifierShutdown"]_vars

\* The only detector there is has logged an error and has since taken a
\* matching change that it is about to notify.
C17_Witness ==
    \E s \in Sessions :
        /\ Running
        /\ errLogged
        /\ wpc[s] = "notify" /\ watching[s]
        /\ \A t \in Sessions \ {s} : wpc[t] = "none"
====
